---- MODULE Spec2Model ----
(***************************************************************************)
(* A model of tasks.py: the Task record (directive grammar, line codec,    *)
(* due-date resolver, mutators) and the TaskManager's id allocation.       *)
(*                                                                         *)
(* A Python str is modelled as a sequence of one-character strings, so     *)
(* every regular expression of the source is an operator over characters.  *)
(***************************************************************************)
EXTENDS Integers, Sequences, FiniteSets, TLC

VARIABLES
    pc,         \* "new": no Task built yet; "ready": a Task exists; "raised": the command died with an exception
    task,       \* the fields of the Task object
    now,        \* the wall clock read by datetime.now()
    ticks,      \* how often the clock has advanced
    steps,      \* the calls made on the Task since it was built
    last,       \* history: the last operation, its argument, the clock it read and the Task before it
    context,    \* file <directory>/context: the name of the current organization ("": the file does not exist)
    taskid,     \* file <directory>/<organization>/taskid per organization (0: the file does not exist)
    current,    \* file <directory>/<organization>/current.log per organization: the ids of its lines
    assigned,   \* history: the ids add_task has handed out, per organization
    lastAdd     \* history: the last add_task: its organization, its id, the ids handed out before it

vars == <<pc, task, now, ticks, steps, last, context, taskid, current, assigned, lastAdd>>
taskVars == <<pc, task, now, ticks, steps, last>>
mgrVars == <<context, taskid, current, assigned, lastAdd>>

(***************************************************************************)
(* Bounds                                                                  *)
(***************************************************************************)
MaxFrags == 2       \* fragments in a line of current.log the model reads
MaxTicks == 1       \* advances of the clock
MaxSteps == 2       \* calls on one Task object
MaxTaskId == 4      \* cap of the id counter

(***************************************************************************)
(* Characters                                                              *)
(***************************************************************************)
DigitChars == <<"0", "1", "2", "3", "4", "5", "6", "7", "8", "9">>
Digits == {"0", "1", "2", "3", "4", "5", "6", "7", "8", "9"}
IsDigit(c) == c \in Digits
DigitVal(c) == CHOOSE i \in 0..9 : DigitChars[i + 1] = c
Lower == {"a", "b", "c", "d", "e", "f", "g", "h", "i", "j", "k", "l", "m",
          "n", "o", "p", "q", "r", "s", "t", "u", "v", "w", "x", "y", "z"}
Upper == {"A", "B", "C", "D", "E", "F", "G", "H", "I", "J", "K", "L", "M",
          "N", "O", "P", "Q", "R", "S", "T", "U", "V", "W", "X", "Y", "Z"}
\* \w
WordChars == Digits \cup Lower \cup Upper \cup {"_"}
IsWord(c) == c \in WordChars
\* \s (no line breaks: a message is one line)
SpaceChars == {" ", "\t"}
IsSpace(c) == c \in SpaceChars
\* [\w\-\_] of TAGS_REGEX
TagChars == WordChars \cup {"-"}
IsTagChar(c) == c \in TagChars
\* [\w\(\)\-\_\s\:] of DIRECTIVES_REGEX
DirectiveChars == WordChars \cup SpaceChars \cup {"(", ")", "-", ":"}
IsDirectiveChar(c) == c \in DirectiveChars

(***************************************************************************)
(* String helpers                                                          *)
(***************************************************************************)
From(s, i) == SubSeq(s, i, Len(s))
\* the least element of the set S of numbers in i..n, 0 when S is empty
RECURSIVE Least(_, _, _)
Least(S, i, n) == IF i > n THEN 0 ELSE IF i \in S THEN i ELSE Least(S, i + 1, n)
StartsAt(s, i, p) == i >= 1 /\ i + Len(p) - 1 <= Len(s) /\ SubSeq(s, i, i + Len(p) - 1) = p
\* the first index >= i where p occurs in s, 0 when there is none
RECURSIVE FindFrom(_, _, _)
FindFrom(s, p, i) ==
    IF i + Len(p) - 1 > Len(s) THEN 0
    ELSE IF s[i] = p[1] /\ StartsAt(s, i, p) THEN i
    ELSE FindFrom(s, p, i + 1)
Find(s, p) == FindFrom(s, p, 1)
\* the first index j >= i of s that is in the set hits, 0 when there is none
First(s, i, hits) == Least(hits, i, Len(s))
Contains(s, p) == Find(s, p) # 0
\* the index after the longest run of characters of the class cls that starts at i
RunEnd(s, i, cls) ==
    LET k == Least({j \in i..Len(s) : s[j] \notin cls}, i, Len(s))
    IN IF k = 0 THEN Len(s) + 1 ELSE k
RunLen(s, i, cls) == RunEnd(s, i, cls) - i
\* the index of the last ")" of s at or before i, 0 when there is none
RECURSIVE LastCloseFrom(_, _)
LastCloseFrom(s, i) == IF i = 0 \/ s[i] = ")" THEN i ELSE LastCloseFrom(s, i - 1)
LastClose(s) == LastCloseFrom(s, Len(s))
\* str.rstrip()
RECURSIVE rstrip(_)
rstrip(s) == IF s # <<>> /\ IsSpace(s[Len(s)]) THEN rstrip(SubSeq(s, 1, Len(s) - 1)) ELSE s

\* re.sub of a pattern that is a literal string p
RECURSIVE SubLiteral(_, _, _)
SubLiteral(p, r, s) ==
    LET j == Find(s, p)
    IN IF j = 0 THEN s
       ELSE SubSeq(s, 1, j - 1) \o r \o SubLiteral(p, r, From(s, j + Len(p)))

\* re.sub of a pattern "(@name\(.*\))": the match starts at the first
\* "@name(" and, .* being greedy, ends at the last ")" of the string
SubGreedy(open, r, s) ==
    LET j == Find(s, open)
        k == LastClose(s)
    IN IF j = 0 \/ k < j + Len(open) THEN s
       ELSE SubSeq(s, 1, j - 1) \o r \o From(s, k + 1)
GreedyMatches(open, s) ==
    LET j == Find(s, open) IN j # 0 /\ LastClose(s) >= j + Len(open)

\* SQUEEZE_REGEX.sub(" ", s): every run of whitespace becomes one space
RECURSIVE Squeeze(_)
Squeeze(s) ==
    IF s = <<>> THEN <<>>
    ELSE IF IsSpace(s[1]) THEN <<" ">> \o Squeeze(From(s, 1 + RunLen(s, 1, SpaceChars)))
    ELSE <<s[1]>> \o Squeeze(Tail(s))

\* str(n) and int(s) for n >= 0
RECURSIVE IntToStr(_)
IntToStr(n) == IF n < 10 THEN <<DigitChars[n + 1]>>
               ELSE IntToStr(n \div 10) \o <<DigitChars[(n % 10) + 1]>>
RECURSIVE StrToInt(_)
StrToInt(s) == IF s = <<>> THEN 0
               ELSE 10 * StrToInt(SubSeq(s, 1, Len(s) - 1)) + DigitVal(s[Len(s)])
\* str.lower() on the letters of the priority tokens
LowerChar(c) ==
    IF c = "H" THEN "h" ELSE IF c = "I" THEN "i" ELSE IF c = "G" THEN "g"
    ELSE IF c = "L" THEN "l" ELSE IF c = "O" THEN "o" ELSE IF c = "W" THEN "w"
    ELSE IF c = "M" THEN "m" ELSE IF c = "E" THEN "e" ELSE IF c = "D" THEN "d"
    ELSE IF c = "U" THEN "u" ELSE c
ToLower(s) == [i \in 1..Len(s) |-> LowerChar(s[i])]

Pad2(n) == <<DigitChars[(n \div 10) + 1], DigitChars[(n % 10) + 1]>>
Pad4(n) == Pad2(n \div 100) \o Pad2(n % 100)

(***************************************************************************)
(* Timestamps: a datetime is a record; NoTime stands for None              *)
(***************************************************************************)
NoTime == [y |-> 0, mo |-> 0, d |-> 0, h |-> 0, mi |-> 0, s |-> 0]
IsLeap(y) == (y % 4 = 0 /\ y % 100 # 0) \/ y % 400 = 0
DaysIn(y, mo) == IF mo = 2 THEN (IF IsLeap(y) THEN 29 ELSE 28)
                 ELSE IF mo \in {4, 6, 9, 11} THEN 30 ELSE 31
\* datetime + timedelta(days=n), n >= 0 and small
RECURSIVE AddDays(_, _)
AddDays(ts, n) ==
    IF n = 0 THEN ts
    ELSE IF ts.d < DaysIn(ts.y, ts.mo) THEN AddDays([ts EXCEPT !.d = @ + 1], n - 1)
    ELSE IF ts.mo < 12 THEN AddDays([ts EXCEPT !.d = 1, !.mo = @ + 1], n - 1)
    ELSE AddDays([ts EXCEPT !.d = 1, !.mo = 1, !.y = @ + 1], n - 1)
\* datetime.isoformat(sep=" ", timespec="minutes")
isoformat(ts) ==
    Pad4(ts.y) \o <<"-">> \o Pad2(ts.mo) \o <<"-">> \o Pad2(ts.d) \o <<" ">>
        \o Pad2(ts.h) \o <<":">> \o Pad2(ts.mi)

AllDigits(s, i, n) == i + n - 1 <= Len(s) /\ \A k \in i..(i + n - 1) : IsDigit(s[k])
Num(s, i, n) == StrToInt(SubSeq(s, i, i + n - 1))
\* position j of s holds a character of the set after; the empty set stands
\* for the end of the string
Follows(s, j, after) == IF after = {} THEN j = Len(s) + 1 ELSE j <= Len(s) /\ s[j] \in after
\* the characters a one-or-two digit strptime directive takes at i when a
\* character of after follows it (0: the directive does not match there)
NumLen(s, i, after) ==
    IF AllDigits(s, i, 2) /\ Follows(s, i + 2, after) THEN 2
    ELSE IF AllDigits(s, i, 1) /\ Follows(s, i + 1, after) THEN 1
    ELSE 0

\* datetime.strptime(string, "%Y-%m-%d %H:%M"): ok is FALSE where it raises ValueError
parse_datetime(s) ==
    LET IsDash(j) == j <= Len(s) /\ s[j] = "-"
        IsBlank(j) == j <= Len(s) /\ IsSpace(s[j])
        bad == [ok |-> FALSE, ts |-> NoTime]
    IN  IF ~(AllDigits(s, 1, 4) /\ IsDash(5)) THEN bad
        ELSE
        LET y == Num(s, 1, 4)
            nm == NumLen(s, 6, {"-"})
        IN  IF nm = 0 THEN bad
            ELSE
            LET mo == Num(s, 6, nm)
                p == 6 + nm + 1
                \* the alternative " [1-9]" of %d
                spaced == IsBlank(p) /\ s[p] = " " /\ AllDigits(s, p + 1, 1) /\ IsBlank(p + 2)
                nd == IF spaced THEN 2 ELSE NumLen(s, p, SpaceChars)
            IN  IF nd = 0 THEN bad
                ELSE
                LET d == IF spaced THEN Num(s, p + 1, 1) ELSE Num(s, p, nd)
                    q == p + nd
                    r == q + RunLen(s, q, SpaceChars)
                    nh == NumLen(s, r, {":"})
                IN  IF nh = 0 THEN bad
                    ELSE
                    LET h == Num(s, r, nh)
                        nmi == NumLen(s, r + nh + 1, {})
                    IN  IF nmi = 0 THEN bad
                        ELSE
                        LET mi == Num(s, r + nh + 1, nmi)
                        IN  IF y >= 1 /\ mo \in 1..12 /\ d >= 1 /\ d <= DaysIn(y, mo)
                               /\ h <= 23 /\ mi <= 59
                            THEN [ok |-> TRUE,
                                  ts |-> [y |-> y, mo |-> mo, d |-> d, h |-> h, mi |-> mi, s |-> 0]]
                            ELSE bad

\* DAY_REGEX.findall(string): the digits of the first run of digits that a "d" follows
DayMatch(s) ==
    LET Hit(i) == IsDigit(s[i]) /\ RunEnd(s, i, Digits) <= Len(s) /\ s[RunEnd(s, i, Digits)] = "d"
        i == First(s, 1, {k \in 1..Len(s) : Hit(k)})
    IN IF i = 0 THEN <<>> ELSE SubSeq(s, i, RunEnd(s, i, Digits) - 1)

parse_due(s, clock) ==
    IF s = <<"t", "o", "d", "a", "y">> \/ s = <<"n", "o", "w">> THEN [ok |-> TRUE, ts |-> clock]
    ELSE IF s = <<"t", "o", "m", "o", "r", "r", "o", "w">> THEN [ok |-> TRUE, ts |-> AddDays(clock, 1)]
    ELSE IF DayMatch(s) # <<>> THEN [ok |-> TRUE, ts |-> AddDays(clock, StrToInt(DayMatch(s)))]
    ELSE parse_datetime(s)

(***************************************************************************)
(* Directive grammar                                                       *)
(***************************************************************************)
\* TAGS_REGEX.findall(message)
RECURSIVE FindallTags(_)
FindallTags(s) ==
    LET Hit(i) == s[i] = "+" /\ i < Len(s) /\ IsTagChar(s[i + 1])
        j == First(s, 1, {k \in 1..Len(s) : Hit(k)})
    IN IF j = 0 THEN <<>>
       ELSE LET n == RunLen(s, j + 1, TagChars)
            IN <<SubSeq(s, j + 1, j + n)>> \o FindallTags(From(s, j + n + 1))

\* DIRECTIVES_REGEX.findall(message)
RECURSIVE FindallDirectives(_)
FindallDirectives(s) ==
    LET Hit(i) == s[i] = "@" /\ i < Len(s) /\ IsDirectiveChar(s[i + 1])
        j == First(s, 1, {k \in 1..Len(s) : Hit(k)})
    IN IF j = 0 THEN <<>>
       ELSE LET n == RunLen(s, j + 1, DirectiveChars)
            IN <<SubSeq(s, j + 1, j + n)>> \o FindallDirectives(From(s, j + n + 1))

\* DIRECTIVE_NAMES_REGEX.findall(d)[0][0]: the first run of word characters;
\* without one the list is empty and [0] raises IndexError
FirstWord(d) == LET Hit(i) == IsWord(d[i]) IN First(d, 1, {k \in 1..Len(d) : Hit(k)})
HasDirectiveName(d) == FirstWord(d) # 0
DirectiveName(d) == SubSeq(d, FirstWord(d), RunEnd(d, FirstWord(d), WordChars) - 1)

\* DIRECTIVE_PARAMS_REGEX.findall(d): [^()]+ \( (.*) \) matches from the first
\* "(" that follows a character other than a parenthesis to the last ")"
ParamOpen(d) ==
    LET Hit(j) == d[j] = "(" /\ d[j - 1] \notin {"(", ")"}
    IN First(d, 2, {k \in 2..Len(d) : Hit(k)})
HasDirectiveParams(d) == ParamOpen(d) # 0 /\ LastClose(d) > ParamOpen(d)
\* parts[1]
DirectiveParam(d) == SubSeq(d, ParamOpen(d) + 1, LastClose(d) - 1)

\* PRIORITY_REGEX = @(low|medium|high)
PriorityTokens == {<<"@", "l", "o", "w">>, <<"@", "m", "e", "d", "i", "u", "m">>, <<"@", "h", "i", "g", "h">>}
PriorityAt(s, j) == IF s[j] = "@" THEN {p \in PriorityTokens : StartsAt(s, j, p)} ELSE {}
FirstPriority(s) == LET Hit(j) == PriorityAt(s, j) # {} IN First(s, 1, {k \in 1..Len(s) : Hit(k)})
\* PRIORITY_REGEX.search(s)
PrioritySearch(s) == FirstPriority(s) # 0
\* PRIORITY_REGEX.sub(r, s)
RECURSIVE PrioritySub(_, _)
PrioritySub(r, s) ==
    LET j == FirstPriority(s)
    IN IF j = 0 THEN s
       ELSE LET p == CHOOSE q \in PriorityAt(s, j) : TRUE
            IN SubSeq(s, 1, j - 1) \o r \o PrioritySub(r, From(s, j + Len(p)))

(***************************************************************************)
(* Task                                                                    *)
(***************************************************************************)
\* TaskState values
COMPLETED == "x"
INCOMPLETED == " "
CANCELLED == "-"

\* TaskState.parse(value)
TaskState_parse(value) ==
    IF value = CANCELLED THEN CANCELLED
    ELSE IF value = COMPLETED THEN COMPLETED
    ELSE INCOMPLETED

\* Task.__init__(id=id, state=state): a falsy state (None) becomes INCOMPLETED.
\* priority is "None" or a Priority value; blocked and delayed are "None",
\* "True" or "False"; message is None until apply sets it.
Task_init(id, state) ==
    [id |-> id, message |-> <<>>, state |-> state, tags |-> <<>>, due |-> NoTime,
     priority |-> "None", completed |-> NoTime, blocked |-> "None", delayed |-> "None"]

\* a _strip_state that deletes the completed directives and leaves the cancelled ones
_strip_state_completed(m) ==
    Squeeze(rstrip(SubGreedy(<<"@", "c", "o", "m", "p", "l", "e", "t", "e", "d", "(">>, <<>>, m)))

_strip_state(m) ==
    LET m1 == SubGreedy(<<"@", "c", "o", "m", "p", "l", "e", "t", "e", "d", "(">>, <<>>, m)
        m2 == SubGreedy(<<"@", "c", "a", "n", "c", "e", "l", "l", "e", "d", "(">>, <<>>, m1)
    IN Squeeze(rstrip(m2))

\* a _strip_blocked that squeezes the whitespace as _strip_state does
_strip_blocked_squeezed(m) == Squeeze(rstrip(SubLiteral(<<"@", "b", "l", "o", "c", "k", "e", "d">>, <<>>, m)))

_strip_blocked(m) == rstrip(SubLiteral(<<"@", "b", "l", "o", "c", "k", "e", "d">>, <<>>, m))

_strip_delayed(m) == rstrip(SubLiteral(<<"@", "d", "e", "l", "a", "y", "e", "d">>, <<>>, m))

\* the message after Task._replace_due() for self.due = ts
_replace_due(ts, m) == SubGreedy(<<"@", "d", "u", "e", "(">>, <<"@", "d", "u", "e", "(">> \o isoformat(ts) \o <<")">>, m)

\* a set_priority that lowers the token first
PriorityLevel_anycase(level) ==
    LET l == ToLower(level)
    IN  IF l = <<"l", "o", "w">> \/ l = <<"l">> \/ l = <<"1">> THEN "low"
        ELSE IF l = <<"m", "e", "d", "i", "u", "m">> \/ l = <<"m">> \/ l = <<"2">> THEN "medium"
        ELSE IF l = <<"h", "i", "g", "h">> \/ l = <<"h">> \/ l = <<"3">> THEN "high"
        ELSE IF l = <<"n", "o", "n", "e">> \/ l = <<"n">> \/ l = <<"0">> THEN ""
        ELSE "?"

\* the long form set_priority maps the token level to ("" for none, "?" when it is not recognised)
PriorityLevel(level) ==
    IF level = <<"l", "o", "w">> \/ level = <<"l">> \/ level = <<"1">> THEN "low"
    ELSE IF level = <<"m", "e", "d", "i", "u", "m">> \/ level = <<"m">> \/ level = <<"2">> THEN "medium"
    ELSE IF level = <<"h", "i", "g", "h">> \/ level = <<"h">> \/ level = <<"3">> THEN "high"
    ELSE IF level = <<"n", "o", "n", "e">> \/ level = <<"n">> \/ level = <<"0">> THEN ""
    ELSE "?"
PriorityText(p) ==
    IF p = "low" THEN <<"l", "o", "w">> ELSE IF p = "medium" THEN <<"m", "e", "d", "i", "u", "m">> ELSE <<"h", "i", "g", "h">>

set_priority(t, level) ==
    LET p == PriorityLevel(level)
    IN  IF p = "?" THEN t
        ELSE IF p = "" THEN [t EXCEPT !.priority = "None", !.message = PrioritySub(<<>>, t.message)]
        ELSE IF PrioritySearch(t.message)
             THEN [t EXCEPT !.priority = p,
                            !.message = PrioritySub(<<"@">> \o PriorityText(p), t.message)]
             ELSE [t EXCEPT !.priority = p, !.message = t.message \o <<" ", "@">> \o PriorityText(p)]

delay(t) == [t EXCEPT !.delayed = "True", !.message = _strip_delayed(t.message) \o <<" ", "@", "d", "e", "l", "a", "y", "e", "d">>]
undelay(t) == [t EXCEPT !.delayed = "False", !.message = _strip_delayed(t.message)]
block(t) == [t EXCEPT !.blocked = "True", !.message = _strip_blocked(t.message) \o <<" ", "@", "b", "l", "o", "c", "k", "e", "d">>]
unblock(t) == [t EXCEPT !.blocked = "False", !.message = _strip_blocked(t.message)]

complete(t, clock) ==
    [t EXCEPT !.state = COMPLETED,
              !.message = _strip_state(t.message) \o <<" ", "@", "c", "o", "m", "p", "l", "e", "t", "e", "d", "(">> \o isoformat(clock) \o <<")">>]
uncomplete(t) == [t EXCEPT !.state = INCOMPLETED, !.message = _strip_state(t.message)]
cancel(t, clock) ==
    [t EXCEPT !.state = CANCELLED,
              !.message = _strip_state(t.message) \o <<" ", "@", "c", "a", "n", "c", "e", "l", "l", "e", "d", "(">> \o isoformat(clock) \o <<")">>]

\* Task.to_s(formatted=False)
to_s(t) == IntToStr(t.id) \o <<" ", "-", " ", "[">> \o <<t.state>> \o <<"]", " ", "-", " ">> \o t.message

\* the loop of Task.apply over the directives ds; exc names the exception
\* that ended it ("none": it ran to its end)
RECURSIVE ApplyDirectives(_, _, _)
ApplyDirectives(t, ds, clock) ==
    IF ds = <<>> THEN [t |-> t, exc |-> "none"]
    ELSE
    LET d == Head(ds)
    IN  IF ~HasDirectiveName(d) THEN [t |-> t, exc |-> "IndexError"]
        ELSE
        LET name == DirectiveName(d)
            parts == HasDirectiveParams(d)
        IN  IF name = <<"h", "i", "g", "h">> THEN ApplyDirectives([t EXCEPT !.priority = "high"], Tail(ds), clock)
            ELSE IF name = <<"m", "e", "d", "i", "u", "m">> THEN ApplyDirectives([t EXCEPT !.priority = "medium"], Tail(ds), clock)
            ELSE IF name = <<"l", "o", "w">> THEN ApplyDirectives([t EXCEPT !.priority = "low"], Tail(ds), clock)
            ELSE IF name = <<"c", "o", "m", "p", "l", "e", "t", "e", "d">> THEN
                LET t1 == [t EXCEPT !.state = COMPLETED]
                IN  IF ~parts THEN ApplyDirectives(t1, Tail(ds), clock)
                    ELSE LET r == parse_datetime(DirectiveParam(d))
                         IN IF ~r.ok THEN [t |-> t1, exc |-> "ValueError"]
                            ELSE ApplyDirectives([t1 EXCEPT !.completed = r.ts], Tail(ds), clock)
            ELSE IF name = <<"d", "u", "e">> THEN
                IF ~parts THEN ApplyDirectives(t, Tail(ds), clock)
                ELSE LET r == parse_due(DirectiveParam(d), clock)
                     IN IF ~r.ok THEN [t |-> t, exc |-> "ValueError"]
                        ELSE ApplyDirectives([t EXCEPT !.due = r.ts,
                                                       !.message = _replace_due(r.ts, t.message)],
                                             Tail(ds), clock)
            ELSE IF name = <<"b", "l", "o", "c", "k", "e", "d">> THEN ApplyDirectives([t EXCEPT !.blocked = "True"], Tail(ds), clock)
            ELSE IF name = <<"d", "e", "l", "a", "y", "e", "d">> THEN ApplyDirectives([t EXCEPT !.delayed = "True"], Tail(ds), clock)
            ELSE ApplyDirectives(t, Tail(ds), clock)

\* an apply that adds to the tags instead of replacing them
apply_keeping_tags(t, message, clock) ==
    ApplyDirectives([t EXCEPT !.message = message, !.tags = t.tags \o FindallTags(message)],
                    FindallDirectives(message), clock)

\* Task.apply(message)
apply(t, message, clock) ==
    ApplyDirectives([t EXCEPT !.message = message, !.tags = FindallTags(message)],
                    FindallDirectives(message), clock)

\* TASK_REGEX.match(line): (\d+)\s+-\s+\[(.)\]\s+-\s+(.*); ok is FALSE when
\* there is no match (groups is None and .group raises AttributeError)
TaskMatch(line) ==
    LET bad == [ok |-> FALSE, id |-> <<>>, state |-> " ", message |-> <<>>]
        n1 == RunLen(line, 1, Digits)
        s1 == RunLen(line, n1 + 1, SpaceChars)
        a == n1 + s1 + 1                       \* the first "-"
        s2 == RunLen(line, a + 1, SpaceChars)
        b == a + s2 + 1                        \* "["
        s3 == RunLen(line, b + 3, SpaceChars)
        c == b + 3 + s3                        \* the second "-"
        s4 == RunLen(line, c + 1, SpaceChars)
    IN  IF n1 >= 1 /\ s1 >= 1 /\ StartsAt(line, a, <<"-">>) /\ s2 >= 1
           /\ StartsAt(line, b, <<"[">>) /\ b + 2 <= Len(line) /\ line[b + 2] = "]"
           /\ s3 >= 1 /\ StartsAt(line, c, <<"-">>) /\ s4 >= 1
        THEN [ok |-> TRUE, id |-> SubSeq(line, 1, n1), state |-> line[b + 1],
              message |-> From(line, c + 1 + s4)]
        ELSE bad

\* Task.parse(line)
parse(line, clock) ==
    LET groups == TaskMatch(line)
    IN  IF ~groups.ok THEN [t |-> Task_init(0, INCOMPLETED), exc |-> "AttributeError"]
        ELSE apply(Task_init(StrToInt(groups.id), TaskState_parse(groups.state)),
                   groups.message, clock)

\* Task.new(id, message, state)
new(id, message, state, clock) == apply(Task_init(id, state), message, clock)

(***************************************************************************)
(* The inputs the model draws                                              *)
(***************************************************************************)
\* two timestamps as the storage format writes them
T0 == <<"2", "0", "2", "4", "-", "0", "6", "-", "0", "1", " ", "0", "8", ":", "0", "0">>    \* 2024-06-01 08:00
T1 == <<"2", "0", "2", "4", "-", "0", "6", "-", "0", "2", " ", "0", "9", ":", "0", "0">>    \* 2024-06-02 09:00
\* the pieces the lines are made of: words, tags, directives well and ill formed
Fragments ==
    { <<"a">>,    \* a
      <<"+", "t">>,    \* +t
      <<"(", "b", ")">>,    \* (b)
      <<"@", "h", "i", "g", "h">>,    \* @high
      <<"@", "l", "o", "w">>,    \* @low
      <<"@", "b", "l", "o", "c", "k", "e", "d">>,    \* @blocked
      <<"@", "d", "e", "l", "a", "y", "e", "d">>,    \* @delayed
      <<"@", "d", "u", "e", "(", "2", "0", "2", "4", "-", "0", "6", "-", "0", "1", " ", "0", "8", ":", "0", "0", ")">>,    \* @due(2024-06-01 08:00)
      <<"@", "d", "u", "e", "(", "1", "d", ")">>,    \* @due(1d)
      <<"@", "d", "u", "e", "(", "x", "3", "d", "y", ")">>,    \* @due(x3dy)
      <<"@", "d", "u", "e", "(", "x", ")">>,    \* @due(x)
      <<"@", "c", "o", "m", "p", "l", "e", "t", "e", "d", "(", "2", "0", "2", "4", "-", "0", "6", "-", "0", "2", " ", "0", "9", ":", "0", "0", ")">>,    \* @completed(2024-06-02 09:00)
      <<"@", "c", "o", "m", "p", "l", "e", "t", "e", "d", "(", "z", ")">>,    \* @completed(z)
      <<"@", "c", "a", "n", "c", "e", "l", "l", "e", "d", "(", "2", "0", "2", "4", "-", "0", "6", "-", "0", "2", " ", "0", "9", ":", "0", "0", ")">> }    \* @cancelled(2024-06-02 09:00)
\* the messages of n fragments, a space between two of them
RECURSIVE MessagesOf(_)
MessagesOf(n) ==
    IF n = 1 THEN Fragments
    ELSE {m \o <<" ">> \o f : m \in MessagesOf(n - 1), f \in Fragments}
Messages == UNION {MessagesOf(n) : n \in 1..MaxFrags}
StateChars == {"x", " ", "-", "?"}
\* the lines of current.log the model reads: "12 - [<stateChar>] - <message>"
Lines == {<<"1", "2", " ", "-", " ", "[">> \o <<c>> \o <<"]", " ", "-", " ">> \o m : c \in StateChars, m \in Messages}
\* the messages the add command is given
Adds ==
    { <<"a">>,    \* a
      <<"a", " ", " ", "b">>,    \* a  b
      <<"a", " ", "+", "t", " ", "(", "b", ")">>,    \* a +t (b)
      <<"a", " ", "@", "h", "i", "g", "h">>,    \* a @high
      <<"a", " ", "@", "l", "o", "w", " ", "b", " ", "@", "h", "i", "g", "h">>,    \* a @low b @high
      <<"t", "a", "k", "e", " ", "@", "h", "i", "g", "h", "w", "a", "y">>,    \* take @highway
      <<"a", " ", "@", "b", "l", "o", "c", "k", "e", "d">>,    \* a @blocked
      <<"a", " ", "@", "b", "l", "o", "c", "k", "e", "d", " ", " ", "b">>,    \* a @blocked  b
      <<"a", " ", "@", "d", "e", "l", "a", "y", "e", "d", " ", "b", " ", " ">>,    \* a @delayed b  
      <<"a", " ", "@", "d", "u", "e", "(", "2", "0", "2", "4", "-", "0", "6", "-", "0", "1", " ", "0", "8", ":", "0", "0", ")">>,    \* a @due(2024-06-01 08:00)
      <<"a", " ", "@", "d", "u", "e", "(", "2", "0", "2", "4", "-", "0", "6", "-", "0", "1", " ", "0", "8", ":", "0", "0", ")", " ", "@", "c", "o", "m", "p", "l", "e", "t", "e", "d", "(", "2", "0", "2", "4", "-", "0", "6", "-", "0", "2", " ", "0", "9", ":", "0", "0", ")">>,    \* a @due(2024-06-01 08:00) @completed(2024-06-02 09:00)
      <<"a", " ", "@", "c", "a", "n", "c", "e", "l", "l", "e", "d", "(", "2", "0", "2", "4", "-", "0", "6", "-", "0", "2", " ", "0", "9", ":", "0", "0", ")", " ", "(", "b", ")">>,    \* a @cancelled(2024-06-02 09:00) (b)
      <<"a", " ", "@", "d", "u", "e", "(", "x", ")">> }    \* a @due(x)
\* the messages the edit command is given
Edits ==
    { <<"a">>,    \* a
      <<"b", " ", "+", "u", " ", "@", "l", "o", "w">>,    \* b +u @low
      <<"a", " ", "@", "b", "l", "o", "c", "k", "e", "d">>,    \* a @blocked
      <<"a", " ", "@", "d", "e", "l", "a", "y", "e", "d", " ", "@", "m", "e", "d", "i", "u", "m">>,    \* a @delayed @medium
      <<"a", " ", "@", "d", "u", "e", "(", "1", "d", ")">>,    \* a @due(1d)
      <<"a", " ", "@", "c", "o", "m", "p", "l", "e", "t", "e", "d", "(", "2", "0", "2", "4", "-", "0", "6", "-", "0", "2", " ", "0", "9", ":", "0", "0", ")">>,    \* a @completed(2024-06-02 09:00)
      <<"a", " ", "@", "c", "o", "m", "p", "l", "e", "t", "e", "d", "(", "z", ")">>,    \* a @completed(z)
      <<"a", " ", "@", "d", "u", "e", "(", "x", "3", "d", "y", ")", " ", "+", "t">> }    \* a @due(x3dy) +t
\* the tokens the priority command is given
Levels ==
    { <<"l", "o", "w">>,    \* low
      <<"m", "e", "d", "i", "u", "m">>,    \* medium
      <<"h", "i", "g", "h">>,    \* high
      <<"3">>,    \* 3
      <<"n", "o", "n", "e">>,    \* none
      <<"H", "I", "G", "H">>,    \* HIGH
      <<"M", "e", "d", "i", "u", "m">>,    \* Medium
      <<"x", "y", "z">> }    \* xyz
\* the clock: the day before the last of February of a leap year, half a minute past 09:05
Clock0 == [y |-> 2024, mo |-> 2, d |-> 28, h |-> 9, mi |-> 5, s |-> 30]
DEFAULT_CONTEXT == "default"
Orgs == {DEFAULT_CONTEXT, "work"}

(***************************************************************************)
(* The Task: one action per method a command calls                         *)
(***************************************************************************)
Blank == Task_init(0, INCOMPLETED)
NoAdd == [org |-> DEFAULT_CONTEXT, id |-> 0, before |-> {}]

MgrInit ==
    /\ context = ""
    /\ taskid = [o \in Orgs |-> 0]
    /\ current = [o \in Orgs |-> <<>>]
    /\ assigned = [o \in Orgs |-> {}]
    /\ lastAdd = NoAdd

TaskInit ==
    /\ pc = "new"
    /\ task = Blank
    /\ now = Clock0
    /\ ticks = 0
    /\ steps = 0
    /\ last = [op |-> "init", arg |-> <<>>, at |-> Clock0, pre |-> Blank]

Init == TaskInit /\ MgrInit

\* the outcome r of a method that may raise becomes the state
Outcome(r, op, arg) ==
    /\ task' = r.t
    /\ pc' = IF r.exc = "none" THEN "ready" ELSE r.exc
    /\ last' = [op |-> op, arg |-> arg, at |-> now, pre |-> Blank]
    /\ UNCHANGED <<now, ticks>>

\* TasksRepo.__init__: Task.parse(line) of a line of current.log
Parse(line) ==
    /\ pc = "new"
    /\ Outcome(parse(line, now), "parse", line)
    /\ UNCHANGED <<steps, mgrVars>>

\* TaskManager.add_task: Task.new(id, message, state)
New(id, message, completed) ==
    /\ pc = "new"
    /\ Outcome(new(id, message, IF completed THEN COMPLETED ELSE INCOMPLETED, now),
               "new", message)
    /\ UNCHANGED <<steps, mgrVars>>

\* TaskManager.edit_task: task.apply(message)
edit_task(message) ==
    /\ pc = "ready"
    /\ steps < MaxSteps
    /\ steps' = steps + 1
    /\ Outcome(apply(task, message, now), "apply", message)
    /\ UNCHANGED mgrVars

\* TasksRepo._flush and the TasksRepo.__init__ of the next command: the Task
\* is written as a line and parsed back
Reload ==
    /\ pc = "ready"
    /\ steps < MaxSteps
    /\ steps' = steps + 1
    /\ Outcome(parse(to_s(task), now), "reload", <<>>)
    /\ UNCHANGED mgrVars

\* a method that cannot raise; the history keeps the Task from before it
Mutate(t, op, arg) ==
    /\ pc = "ready"
    /\ steps < MaxSteps
    /\ steps' = steps + 1
    /\ task' = t
    /\ last' = [op |-> op, arg |-> arg, at |-> now, pre |-> task]
    /\ UNCHANGED <<pc, now, ticks, mgrVars>>

TaskManager_set_priority(level) == Mutate(set_priority(task, level), "set_priority", level)
block_task == Mutate(block(task), "block", <<>>)
delay_task == Mutate(delay(task), "delay", <<>>)
complete_task == Mutate(complete(task, now), "complete", <<>>)
uncomplete_task == Mutate(uncomplete(task), "uncomplete", <<>>)
cancel_task == Mutate(cancel(task, now), "cancel", <<>>)

\* unblock() and undelay(); when the call before was the block() or the
\* delay(), the history keeps the Task from before that call
unblock_task ==
    /\ pc = "ready"
    /\ steps < MaxSteps
    /\ steps' = steps + 1
    /\ task' = unblock(task)
    /\ last' = IF last.op = "block" THEN [op |-> "block_unblock", arg |-> <<>>, at |-> now, pre |-> last.pre]
               ELSE [op |-> "unblock", arg |-> <<>>, at |-> now, pre |-> task]
    /\ UNCHANGED <<pc, now, ticks, mgrVars>>
undelay_task ==
    /\ pc = "ready"
    /\ steps < MaxSteps
    /\ steps' = steps + 1
    /\ task' = undelay(task)
    /\ last' = IF last.op = "delay" THEN [op |-> "delay_undelay", arg |-> <<>>, at |-> now, pre |-> last.pre]
               ELSE [op |-> "undelay", arg |-> <<>>, at |-> now, pre |-> task]
    /\ UNCHANGED <<pc, now, ticks, mgrVars>>

\* a day passes
Tick ==
    /\ ticks < MaxTicks
    /\ now' = AddDays(now, 1)
    /\ ticks' = ticks + 1
    /\ UNCHANGED <<pc, task, steps, last, mgrVars>>

\* the commands on one task of current.log
Next ==
    \/ \E m \in Adds, c \in BOOLEAN : New(1, m, c)
    \/ \E m \in Edits : edit_task(m)
    \/ Reload
    \/ \E level \in Levels : TaskManager_set_priority(level)
    \/ block_task
    \/ unblock_task
    \/ delay_task
    \/ undelay_task
    \/ complete_task
    \/ uncomplete_task
    \/ cancel_task
    \/ Tick

Spec == Init /\ [][Next]_vars

\* the line codec alone: the lines of current.log are read
NextCodec ==
    \/ \E line \in Lines : Parse(line)
    \/ Tick

SpecCodec == Init /\ [][NextCodec]_vars

(***************************************************************************)
(* The TaskManager: every command is a process of its own; it runs         *)
(* setup(), which reads the files, and then its handler                    *)
(***************************************************************************)
\* TaskManager._setup_context: the organization setup() finds (the
\* constructor's "default" when the context file does not exist yet)
setup_context(ctx) == IF ctx = "" THEN DEFAULT_CONTEXT ELSE ctx
\* TaskManager._setup_organization: the taskid file after it, the manager
\* holding the counter task_id (it writes its counter when the file is missing)
setup_organization(ids, org, task_id) ==
    IF ids[org] # 0 THEN ids ELSE [ids EXCEPT ![org] = task_id]
\* the counter the constructor starts with
FIRST_TASK_ID == 1
\* an _increment_task_id that leaves the counter
_increment_task_id_kept(task_id) == task_id
\* TaskManager._increment_task_id
_increment_task_id(task_id) == task_id + 1
\* TasksRepo.find(id): the ids of the lines of a log
LogIds(log) == {log[i].id : i \in 1..Len(log)}
\* TasksRepo.insert(task): tasks is a dict, a task with a known id takes that entry's place
insert(log, entry) ==
    IF entry.id \in LogIds(log)
    THEN [i \in 1..Len(log) |-> IF log[i].id = entry.id THEN entry ELSE log[i]]
    ELSE Append(log, entry)
\* TasksRepo.remove(task)
remove(log, id) == SelectSeq(log, LAMBDA e : e.id # id)

\* tasks add [-c] message
add_task(message, completed) ==
    LET org == setup_context(context)
        ids == setup_organization(taskid, org, FIRST_TASK_ID)
        task_id == ids[org]
        id == task_id + 1
        r == new(id, message, IF completed THEN COMPLETED ELSE INCOMPLETED, now)
    IN  /\ task_id < MaxTaskId
        /\ context' = org
        /\ IF r.exc # "none"
           THEN /\ taskid' = ids
                /\ UNCHANGED <<current, assigned, lastAdd>>
           ELSE /\ current' = [current EXCEPT ![org] = insert(@, [id |-> r.t.id, state |-> r.t.state])]
                /\ taskid' = [ids EXCEPT ![org] = _increment_task_id(task_id)]
                /\ assigned' = [assigned EXCEPT ![org] = @ \cup {id}]
                /\ lastAdd' = [org |-> org, id |-> id, before |-> assigned[org]]
        /\ UNCHANGED taskVars

\* tasks remove task_id
remove_task(task_id) ==
    LET org == setup_context(context)
    IN  /\ context' = org
        /\ taskid' = setup_organization(taskid, org, FIRST_TASK_ID)
        /\ current' = [current EXCEPT ![org] = IF task_id \in LogIds(@) THEN remove(@, task_id) ELSE @]
        /\ UNCHANGED <<assigned, lastAdd>>
        /\ UNCHANGED taskVars

\* tasks use organization
switch_context(organization) ==
    LET org == setup_context(context)
        ids == setup_organization(taskid, org, FIRST_TASK_ID)
    IN  /\ context' = organization
        /\ taskid' = setup_organization(ids, organization, ids[org])
        /\ UNCHANGED <<current, assigned, lastAdd>>
        /\ UNCHANGED taskVars

NextMgr ==
    \/ \E m \in {<<"a">>, <<"a", " ", "@", "d", "u", "e", "(", "x", ")">>}, c \in BOOLEAN : add_task(m, c)
    \/ \E id \in 1..MaxTaskId : remove_task(id)
    \/ \E o \in Orgs : switch_context(o)

SpecMgr == Init /\ [][NextMgr]_vars

(***************************************************************************)
(* Properties                                                              *)
(***************************************************************************)
\* the fields apply derives from a message
Fields(t) == <<t.tags, t.priority, t.state, t.completed, t.due, t.blocked, t.delayed>>
\* the directives of message m named name, as apply reads them
DirectivesNamed(m, name) ==
    SelectSeq(FindallDirectives(m), LAMBDA d : HasDirectiveName(d) /\ DirectiveName(d) = name)
\* the level of the last priority directive of message m, as apply reads it
PriorityNamed(m) ==
    LET ds == SelectSeq(FindallDirectives(m),
                        LAMBDA d : HasDirectiveName(d) /\ DirectiveName(d) \in {<<"l", "o", "w">>, <<"m", "e", "d", "i", "u", "m">>, <<"h", "i", "g", "h">>})
    IN IF ds = <<>> THEN "None" ELSE PriorityLevel(DirectiveName(ds[Len(ds)]))
\* the matches of PRIORITY_REGEX in s
RECURSIVE CountPriority(_)
CountPriority(s) ==
    LET j == FirstPriority(s)
    IN IF j = 0 THEN 0
       ELSE 1 + CountPriority(From(s, j + Len(CHOOSE q \in PriorityAt(s, j) : TRUE)))
\* the last call ran on a Task and returned
Ran(op) == pc = "ready" /\ last.op = op
\* the state character and the message of a line "<id> - [<stateChar>] - <message>"
LineState(line) == TaskMatch(line).state
LineMessage(line) == TaskMatch(line).message

\* a due expression as the storage format writes it: YYYY-MM-DD HH:MM
IsStoredTimestamp(e) == parse_datetime(e).ok /\ isoformat(parse_datetime(e).ts) = e
\* a valid storage line: one of the three state characters, which is x when
\* the message has a completed directive, and every due directive carries a
\* timestamp in the storage format
ValidStorageLine(line) ==
    /\ TaskMatch(line).ok
    /\ LineState(line) \in {"x", " ", "-"}
    /\ DirectivesNamed(LineMessage(line), <<"c", "o", "m", "p", "l", "e", "t", "e", "d">>) # <<>> => LineState(line) = "x"
    /\ LET ds == DirectivesNamed(LineMessage(line), <<"d", "u", "e">>)
       IN \A i \in 1..Len(ds) : HasDirectiveParams(ds[i]) => IsStoredTimestamp(DirectiveParam(ds[i]))

\* C1: a valid storage line that is parsed is written back unchanged:
\* Task.parse(L).to_s(formatted=False) = L
C1_RoundTrip ==
    (Ran("parse") /\ ValidStorageLine(last.arg)) => to_s(task) = last.arg

\* C2: after every call the structured fields agree with the message: the
\* priority is the level of the priority directive in the message (None when
\* there is none), blocked holds exactly when the message contains @blocked,
\* delayed exactly when it contains @delayed
C2_MessageCanonical ==
    (pc = "ready" /\ last.op \in {"new", "apply", "set_priority", "block", "unblock", "block_unblock",
                                  "delay", "undelay", "delay_undelay"})
    => /\ task.priority = PriorityNamed(task.message)
       /\ (task.blocked = "True") <=> Contains(task.message, <<"@", "b", "l", "o", "c", "k", "e", "d">>)
       /\ (task.delayed = "True") <=> Contains(task.message, <<"@", "d", "e", "l", "a", "y", "e", "d">>)

\* C3: complete() sets the state to Completed, leaves no earlier
\* @completed/@cancelled directive, appends @completed(<now to the minute>)
\* and sets the completed field to now
C3_Complete ==
    Ran("complete") =>
        LET suffix == <<" ", "@", "c", "o", "m", "p", "l", "e", "t", "e", "d", "(">> \o isoformat(last.at) \o <<")">>
            n == Len(task.message) - Len(suffix)
        IN  /\ task.state = COMPLETED
            /\ n >= 0
            /\ SubSeq(task.message, n + 1, Len(task.message)) = suffix
            /\ ~GreedyMatches(<<"@", "c", "o", "m", "p", "l", "e", "t", "e", "d", "(">>, SubSeq(task.message, 1, n))
            /\ ~GreedyMatches(<<"@", "c", "a", "n", "c", "e", "l", "l", "e", "d", "(">>, SubSeq(task.message, 1, n))
            /\ task.completed \in {last.at, [last.at EXCEPT !.s = 0]}

\* C4: apply is idempotent: with the clock held, apply(M) once more leaves
\* tags, priority, state, completed, due, blocked and delayed as apply(M) left them
C4_IdempotentApply ==
    last.op \in {"new", "apply"} => Fields(apply(task, last.arg, last.at).t) = Fields(task)
\* an edit resolved a relative due date on a Task that already had fields set
C4_Witness ==
    /\ Ran("apply")
    /\ last.arg = <<"a", " ", "@", "d", "u", "e", "(", "1", "d", ")">>
    /\ task.due = AddDays(last.at, 1)
    /\ task.priority = "high"
    /\ task.message = <<"a", " ", "@", "d", "u", "e", "(", "2", "0", "2", "4", "-", "0", "2", "-", "2", "9", " ", "0", "9", ":", "0", "5", ")">>

\* C5: after set_priority with low, medium or high the message holds exactly
\* one priority directive, it names the level set, and the priority field is that level
C5_PriorityCycle ==
    (Ran("set_priority") /\ last.arg \in {<<"l", "o", "w">>, <<"m", "e", "d", "i", "u", "m">>, <<"h", "i", "g", "h">>})
    => /\ CountPriority(task.message) = 1
       /\ Contains(task.message, <<"@">> \o last.arg)
       /\ task.priority = PriorityLevel(last.arg)

\* a long form written with an upper-case letter
IsCaseVariant(level) == ToLower(level) \in {<<"l", "o", "w">>, <<"m", "e", "d", "i", "u", "m">>, <<"h", "i", "g", "h">>} /\ level # ToLower(level)

\* C6 as claimed: set_priority with a case variant of low, medium or high
\* sets the priority to that level and the message carries its directive
C6_CaseInsensitive ==
    (Ran("set_priority") /\ IsCaseVariant(last.arg))
    => /\ task.priority = PriorityLevel(ToLower(last.arg))
       /\ Contains(task.message, <<"@">> \o ToLower(last.arg))
\* C6 as amended: set_priority with a long form that has an upper-case
\* letter is a silent no-op: the Task is as it was before the call
C6_CaseVariantIsNoOp ==
    (Ran("set_priority") /\ IsCaseVariant(last.arg)) => task = last.pre
\* set_priority("HIGH") ran on a Task that is not of high priority
C6_Witness ==
    /\ Ran("set_priority")
    /\ last.arg = <<"H", "I", "G", "H">>
    /\ task.priority # "high"
    /\ ~Contains(task.message, <<"@", "h", "i", "g", "h">>)

\* C7 as claimed: block() then unblock(), and delay() then undelay(), give
\* back the message from before, trailing whitespace apart
C7_ToggleRestores ==
    last.op \in {"block_unblock", "delay_undelay"} => rstrip(task.message) = rstrip(last.pre.message)
\* C7 as amended: block() then unblock() gives back a message that held no
\* @blocked, trailing whitespace apart, and delay() then undelay() one that
\* held no @delayed
C7_ToggleRestoresUnmarked ==
    /\ (last.op = "block_unblock" /\ ~Contains(last.pre.message, <<"@", "b", "l", "o", "c", "k", "e", "d">>))
       => rstrip(task.message) = rstrip(last.pre.message)
    /\ (last.op = "delay_undelay" /\ ~Contains(last.pre.message, <<"@", "d", "e", "l", "a", "y", "e", "d">>))
       => rstrip(task.message) = rstrip(last.pre.message)
\* block() then unblock() ran on a message with a run of spaces inside and no @blocked
C7_Witness ==
    /\ last.op = "block_unblock"
    /\ last.pre.message = <<"a", " ", " ", "b">>
    /\ task.message = <<"a", " ", " ", "b">>
    /\ task.blocked = "False"

\* <N>d: an integer and a "d" after it
IsDays(e) == Len(e) >= 2 /\ AllDigits(e, 1, Len(e) - 1) /\ e[Len(e)] = "d"
\* a due expression that is none of today, now, tomorrow, <N>d or a timestamp
Malformed(e) == e \notin {<<"t", "o", "d", "a", "y">>, <<"n", "o", "w">>, <<"t", "o", "m", "o", "r", "r", "o", "w">>} /\ ~IsDays(e) /\ ~parse_datetime(e).ok
HasMalformedDue(m) ==
    LET ds == DirectivesNamed(m, <<"d", "u", "e">>)
    IN \E i \in 1..Len(ds) : HasDirectiveParams(ds[i]) /\ Malformed(DirectiveParam(ds[i]))
\* C8: apply raises exactly when the message has a due directive whose
\* expression is malformed: such an expression fails and nothing else does
C8_DueErrors ==
    last.op \in {"new", "apply"} => ((pc # "ready") <=> HasMalformedDue(last.arg))

\* C9: the state of a parsed line is given by its state character alone:
\* x is Completed, - is Cancelled, any other character Incomplete
C9_StateFromChar ==
    Ran("parse") =>
        task.state = (IF LineState(last.arg) = "x" THEN COMPLETED
                      ELSE IF LineState(last.arg) = "-" THEN CANCELLED
                      ELSE INCOMPLETED)

\* C10: an added task gets an id greater than every id handed out before in
\* its organization, and no two lines of a current.log share an id
C10_IdsNeverReused ==
    /\ lastAdd.id # 0 => \A j \in lastAdd.before : lastAdd.id > j
    /\ \A o \in Orgs : \A i, j \in 1..Len(current[o]) : i # j => current[o][i].id # current[o][j].id
\* a task was added after the newest one had been removed
C10_Witness ==
    /\ lastAdd.id # 0
    /\ lastAdd.id - 1 \in lastAdd.before
    /\ lastAdd.id - 1 \notin LogIds(current[lastAdd.org])
    /\ lastAdd.id \in LogIds(current[lastAdd.org])

\* the index of the first ")" of s at or after i, 0 when there is none
FirstClose(s, i) == First(s, i, {k \in i..Len(s) : s[k] = ")"})
\* message m holds one due directive with a parameter list: one "@due(" and a ")" after it
HasOneDue(m) ==
    LET j == Find(m, <<"@", "d", "u", "e", "(">>)
    IN j # 0 /\ FindFrom(m, <<"@", "d", "u", "e", "(">>, j + 1) = 0 /\ FirstClose(m, j) # 0
\* message m with the text of its due directive, "@due(" to the ")" that
\* closes it, replaced by @due(<ts>), and every other character as it was
DueRewritten(m, ts) ==
    LET j == Find(m, <<"@", "d", "u", "e", "(">>)
        k == FirstClose(m, j)
    IN SubSeq(m, 1, j - 1) \o <<"@", "d", "u", "e", "(">> \o isoformat(ts) \o <<")">> \o From(m, k + 1)

\* C11: when apply resolves the due directive of a message, the text of that
\* directive becomes @due(YYYY-MM-DD HH:MM) where it stood and every
\* character before and after it is unchanged
C11_DueInPlace ==
    (pc = "ready" /\ last.op \in {"new", "apply"} /\ HasOneDue(last.arg))
    => task.message = DueRewritten(last.arg, task.due)

\* s without the directives that open with open: each "@name(" and the text
\* up to the first ")" after it is deleted, nothing else
RECURSIVE StripExact(_, _)
StripExact(open, s) ==
    LET j == Find(s, open)
        k == IF j = 0 THEN 0 ELSE FirstClose(s, j)
    IN IF k = 0 THEN s
       ELSE SubSeq(s, 1, j - 1) \o StripExact(open, From(s, k + 1))
\* what message m says apart from its state directives: the @completed(...)
\* and @cancelled(...) occurrences deleted, runs of whitespace collapsed to
\* one space, trailing whitespace trimmed
WithoutStateDirectives(m) ==
    Squeeze(rstrip(StripExact(<<"@", "c", "a", "n", "c", "e", "l", "l", "e", "d", "(">>, StripExact(<<"@", "c", "o", "m", "p", "l", "e", "t", "e", "d", "(">>, m))))
HasStateDirective(m) == Contains(m, <<"@", "c", "o", "m", "p", "l", "e", "t", "e", "d", "(">>) \/ Contains(m, <<"@", "c", "a", "n", "c", "e", "l", "l", "e", "d", "(">>)

\* C12: complete(), cancel() and uncomplete() delete the @completed(...) and
\* @cancelled(...) directives and nothing else: the tags, the other
\* directives and the words of the message from before the call are all
\* still there, and a complete() that is written, parsed back and followed
\* by uncomplete() gives the message from before
C12_StateStripExact ==
    (pc = "ready" /\ last.op \in {"complete", "cancel", "uncomplete"})
    => /\ WithoutStateDirectives(task.message) = WithoutStateDirectives(last.pre.message)
       /\ (last.op = "complete" /\ ~HasStateDirective(last.pre.message))
          => LET r == parse(to_s(task), now)
             IN r.exc = "none" /\ uncomplete(r.t).message = Squeeze(rstrip(last.pre.message))

\* the directives of s that open with open: the occurrences of "@name(" that
\* a ")" closes
RECURSIVE CountDirective(_, _)
CountDirective(open, s) ==
    LET j == Find(s, open)
    IN IF j = 0 \/ FirstClose(s, j) = 0 THEN 0
       ELSE 1 + CountDirective(open, From(s, j + Len(open)))
\* the state of Task t and the state directive of its message agree
StateInStep(t) ==
    LET nc == CountDirective(<<"@", "c", "o", "m", "p", "l", "e", "t", "e", "d", "(">>, t.message)
        nx == CountDirective(<<"@", "c", "a", "n", "c", "e", "l", "l", "e", "d", "(">>, t.message)
    IN /\ nc + nx <= 1
       /\ (nc = 1) <=> (t.state = COMPLETED)
       /\ (nx = 1) <=> (t.state = CANCELLED)
       /\ (nc + nx = 0) <=> (t.state = INCOMPLETED)

\* the messages of the add command that hold no state directive
Unmarked ==
    {m \in Adds : DirectivesNamed(m, <<"c", "o", "m", "p", "l", "e", "t", "e", "d">>) = <<>> /\ DirectivesNamed(m, <<"c", "a", "n", "c", "e", "l", "l", "e", "d">>) = <<>>}
\* a Task added incomplete from a message without a state directive, and the
\* complete(), cancel() and uncomplete() calls made on it
NextState ==
    \/ \E m \in Unmarked : New(1, m, FALSE)
    \/ complete_task
    \/ uncomplete_task
    \/ cancel_task
    \/ Tick

SpecState == Init /\ [][NextState]_vars

\* C13: on a Task created incomplete from a message without a state
\* directive, after every sequence of complete(), cancel() and uncomplete()
\* the message holds at most one state directive: @completed(...) exactly
\* when the state is Completed, @cancelled(...) exactly when it is
\* Cancelled, none when it is Incomplete
C13_StateInStep == pc = "ready" => StateInStep(task)
\* cancel() ran on a Task that complete() had completed
C13_Witness ==
    /\ Ran("cancel")
    /\ last.pre.state = COMPLETED
    /\ CountDirective(<<"@", "c", "o", "m", "p", "l", "e", "t", "e", "d", "(">>, last.pre.message) = 1
    /\ task.state = CANCELLED
    /\ CountDirective(<<"@", "c", "a", "n", "c", "e", "l", "l", "e", "d", "(">>, task.message) = 1
    /\ CountDirective(<<"@", "c", "o", "m", "p", "l", "e", "t", "e", "d", "(">>, task.message) = 0

====
